---- MODULE Spec2Model ----
(***************************************************************************)
(* Ingestion job orchestration of the channel-ai backend:                  *)
(*   POST /creator (src/src/routes/health.ts, the `process` router),       *)
(*   processVideosAsyncWithTimeout / processVideosAsync (same file),       *)
(*   RedisJobStore (src/src/lib/quota-middleware.ts),                      *)
(*   getChannelVideos / getChannelInfo (src/src/lib/rag.ts).               *)
(*                                                                         *)
(* Stores are modelled as keyed maps: a key is present iff it is in the    *)
(* DOMAIN of the map.  The Redis job store and the document stores answer  *)
(* reads reliably; the writes of the ChannelAIProcessing record, which the *)
(* code wraps in "non-fatal" try/catch blocks, may fail, and so may the    *)
(* write of the progress inside the try/catch of the video loop; the other *)
(* writes of the job record succeed.  Calls to the                         *)
(* video source, the embedding provider and the vector store may succeed,  *)
(* throw, or never settle.                                                 *)
(***************************************************************************)
EXTENDS Integers, Sequences, FiniteSets, Bags, TLC

VARIABLES
    teams,        \* orgs database, collection `teams`: teamId -> team document
    creators,     \* collection `creators`, keyed by ownedByChannelId
    jobStore,     \* Redis job records: jobId -> ProcessingJob
    processing,   \* collection `ChannelAIProcessing`, keyed by (channelId, teamId, jobId)
    run,          \* processVideosAsync(jobId, ...): position and locals of each background run
    wrapper,      \* processVideosAsyncWithTimeout: state of the Promise.race per job
    teamChanges,  \* number of changes made to team documents so far
    vectors,      \* the vector index: vector id -> record metadata
    transcript_chunks,  \* collection `transcript_chunks`: a bag of documents
    call          \* the last call of a storage or search function and its outcome

pipelineVars == <<teams, creators, jobStore, processing, run, wrapper, teamChanges>>

retrievalVars == <<vectors, transcript_chunks, call>>

vars == <<teams, creators, jobStore, processing, run, wrapper, teamChanges,
          vectors, transcript_chunks, call>>

----------------------------------------------------------------------------
(* Bounds of the model *)

MaxJobs == 2          \* job ids 1..MaxJobs
MaxVideos == 2        \* videos in a channel's uploads playlist
MaxChunks == 2        \* chunks produced for one video
MaxTeamChanges == 1   \* changes of team documents by the environment

Channels == {"c1", "c2"}
Teams == {"t1", "t2"}
JobIds == 1..MaxJobs

DurationSamples == {1, 10, 30}          \* minutes
DescriptionLengths == {0, 50, 51}       \* characters
TitleLengths == {0, 22, 23}             \* characters
CustomDescriptionLengths == {0, 51}     \* characters, 0 when the request has none

----------------------------------------------------------------------------
(* Program constants *)

MIN_DURATION_MINUTES == 2
MAX_DURATION_MINUTES == 25
MinDescriptionLength == 50
DefaultMaxVideos == 20
WikipediaPlaceholderLength == 28

----------------------------------------------------------------------------
(* Documents *)

NoTeam == [found |-> FALSE, sub_status |-> "none", has_channel_ai |-> FALSE]

TeamDocs ==
    {NoTeam} \cup [found : {TRUE}, sub_status : {"active", "canceled"}, has_channel_ai : BOOLEAN]

\* error messages thrown inside processVideosAsync
ErrEligibility == "No eligible videos found. Your videos must be between 2-25 minutes long with captions enabled."
ErrNoContent == "Processing completed but no content available."
ErrTeamGone == "Team no longer exists. Processing aborted."
ErrSubInactive == "Subscription is no longer active. Processing aborted."
ErrAddonCancelled == "Channel AI subscription was cancelled during processing. Processing aborted."
ErrChannelFetch == "Channel not found"
ErrStatusWrite == "status write failed"
ErrVideo == "Failed to process video"
ErrTimeout == "Processing timeout: Job exceeded maximum time limit of 30 minutes"

\* the keywords a message contains
Mentions(msg) ==
    CASE msg = ErrEligibility -> {"captions", "2-25"}
      [] msg = ErrNoContent -> {"captions"}
      [] msg = ErrTimeout -> {"time limit"}
      [] OTHER -> {}

----------------------------------------------------------------------------
(* Pure helpers *)

Take(s, n) == SubSeq(s, 1, IF n < Len(s) THEN n ELSE Len(s))

Max(a, b) == IF a > b THEN a ELSE b

\* the uploads playlist of a channel as the video source reports it
RawVideoLists ==
    UNION {[1..n -> [durationMinutes : DurationSamples, hasCaptions : BOOLEAN]] : n \in 0..MaxVideos}

InDurationBand(v) ==
    v.durationMinutes >= MIN_DURATION_MINUTES /\ v.durationMinutes <= MAX_DURATION_MINUTES

\* getChannelVideos: filter by duration, captioned videos first, at most maxVideos
getChannelVideos(allVideos, maxVideos) ==
    LET filteredByDuration == SelectSeq(allVideos, InDurationBand)
        withCaptions == SelectSeq(filteredByDuration, LAMBDA v : v.hasCaptions)
        withoutCaptions == SelectSeq(filteredByDuration, LAMBDA v : ~v.hasCaptions)
    IN  Take(Take(withCaptions, maxVideos)
               \o Take(withoutCaptions, Max(0, maxVideos - Len(withCaptions))),
             maxVideos)

\* enrichChannelWithWikipedia: placeholder summary built from the channel title
WikipediaSummaryLength(titleLength) ==
    IF titleLength > 0 THEN WikipediaPlaceholderLength + titleLength ELSE 0

LongEnough(length) == length > MinDescriptionLength

videosWithCaptions(videos) == Len(SelectSeq(videos, LAMBDA v : v.hasCaptions))

videosWithValidDuration(videos) == Len(SelectSeq(videos, InDurationBand))

videosEligibleForProcessing(videos) ==
    Len(SelectSeq(videos, LAMBDA v : v.hasCaptions /\ InDurationBand(v)))

\* variant: the gate counts captioned videos and in-band videos separately
EligibilityFails_mut(videos, hasCustomDescription, hasChannelDescription, hasWikipedia) ==
    /\ videosWithCaptions(videos) = 0
    /\ videosWithValidDuration(videos) = 0
    /\ ~hasCustomDescription
    /\ ~hasChannelDescription
    /\ ~hasWikipedia

\* the "fail early" condition of the eligibility gate
EligibilityFails(videos, hasCustomDescription, hasChannelDescription, hasWikipedia) ==
    /\ videosEligibleForProcessing(videos) = 0
    /\ ~hasCustomDescription
    /\ ~hasChannelDescription
    /\ ~hasWikipedia

\* which requirement the fetched videos miss, from the two counts of the gate
GateCondition(withCaptions, withValidDuration) ==
    IF withCaptions = 0 /\ withValidDuration = 0 THEN "neither"
    ELSE IF withCaptions = 0 THEN "noCaptions"
    ELSE IF withValidDuration = 0 THEN "noValidDuration"
    ELSE "noOverlap"

\* the message of the error the gate throws: a fixed text, whatever the two counts are
errorMsg(withCaptions, withValidDuration) == ErrEligibility

\* post-processing validation after the video loop
NoContentAfterLoop(processedVideos, hasCustomDescription, hasChannelDescription, hasWikipedia) ==
    /\ processedVideos = 0
    /\ ~hasChannelDescription
    /\ ~hasCustomDescription
    /\ ~hasWikipedia

\* validation of the team document in POST /creator: 0 when it passes, else the HTTP status
TeamValidationStatus(team) ==
    IF ~team.found THEN 404
    ELSE IF team.sub_status # "active" THEN 403
    ELSE IF team.has_channel_ai # TRUE THEN 403
    ELSE 0

\* variant: the re-validation forgets the add-on flag
RevalidationError_mut(team) ==
    IF ~team.found THEN ErrTeamGone
    ELSE IF team.sub_status # "active" THEN ErrSubInactive
    ELSE ""

\* re-validation before the results are stored: "" when it passes, else the error thrown
RevalidationError(team) ==
    IF ~team.found THEN ErrTeamGone
    ELSE IF team.sub_status # "active" THEN ErrSubInactive
    ELSE IF team.has_channel_ai # TRUE THEN ErrAddonCancelled
    ELSE ""

\* variant: the duplicate check filters on a status no record ever has
ongoingProcessing_mut(channelId, teamId) ==
    {j \in DOMAIN processing :
        /\ processing[j].channelId = channelId
        /\ processing[j].teamId = teamId
        /\ processing[j].status = "queued"}

\* findOne({channelId, teamId, status: 'processing'}) on ChannelAIProcessing: the matching keys
ongoingProcessing(channelId, teamId) ==
    {j \in DOMAIN processing :
        /\ processing[j].channelId = channelId
        /\ processing[j].teamId = teamId
        /\ processing[j].status = "processing"}

\* variant: the write of the completed record is not wrapped in its own try/catch
StatusWriteErrorPropagates_mut == TRUE

\* whether an error of the final status write escapes its own try/catch
StatusWriteErrorPropagates == FALSE

\* variant: the body of the video loop has no try/catch of its own
VideoErrorCaught_mut == FALSE

\* whether an error thrown while one video is handled is caught inside the loop
VideoErrorCaught == TRUE

----------------------------------------------------------------------------
(* State after construction: no creators, no jobs, every team entitled *)

ActiveTeam == [found |-> TRUE, sub_status |-> "active", has_channel_ai |-> TRUE]

Init ==
    /\ teams = [t \in Teams |-> ActiveTeam]
    /\ creators = <<>>
    /\ jobStore = <<>>
    /\ processing = <<>>
    /\ run = <<>>
    /\ wrapper = <<>>
    /\ teamChanges = 0
    /\ vectors = <<>>
    /\ transcript_chunks = EmptyBag
    /\ call = [op |-> "none"]

\* m with key k set to v (insert or overwrite)
Put(m, k, v) == [x \in DOMAIN m \cup {k} |-> IF x = k THEN v ELSE m[x]]

\* m without key k
Remove(m, k) == [x \in DOMAIN m \ {k} |-> m[x]]

\* locals of a run that has not fetched anything yet
NewRun(creatorId, customDescriptionLength) ==
    [creatorId |-> creatorId,
     customDescriptionLength |-> customDescriptionLength,
     pc |-> "start",
     videos |-> <<>>,
     infoFetched |-> FALSE,
     channelDescriptionLength |-> 0,
     wikipediaSummaryLength |-> 0,
     i |-> 0,
     processedVideos |-> 0,
     totalChunks |-> 0,
     failedVideos |-> 0,
     contextChunks |-> 0,
     current |-> 0]

\* locals of a run that will execute no further statement
Ended(r, pc) == [NewRun(r.creatorId, r.customDescriptionLength) EXCEPT !.pc = pc]

hasCustomDescription(r) == LongEnough(r.customDescriptionLength)

hasChannelDescription(r) == LongEnough(r.channelDescriptionLength)

hasWikipedia(r) == LongEnough(r.wikipediaSummaryLength)

----------------------------------------------------------------------------
(* POST /creator *)

\* the handler accepts: creator found or inserted, job stored as queued, background run started
Accept(channelId, teamId, customDescriptionLength, jobs) ==
    LET jobId == Cardinality(DOMAIN run) + 1
    IN  /\ jobId \in jobs
        /\ creators' = IF channelId \in DOMAIN creators THEN creators
                       ELSE Put(creators, channelId,
                                [ownedByTeamId |-> teamId, setupComplete |-> FALSE,
                                 videosOfJob |-> 0])
        /\ jobStore' = Put(jobStore, jobId,
                           [status |-> "queued", error |-> "", current |-> 0, total |-> 0,
                            result |-> <<>>])
        /\ run' = Put(run, jobId, NewRun(channelId, customDescriptionLength))
        /\ wrapper' = Put(wrapper, jobId, "racing")
        /\ UNCHANGED <<teams, processing, teamChanges>>
        /\ UNCHANGED retrievalVars

\* the HTTP status the handler answers with in the current state
PostCreatorStatus(channelId, teamId) ==
    IF TeamValidationStatus(teams[teamId]) # 0 THEN TeamValidationStatus(teams[teamId])
    ELSE IF ongoingProcessing(channelId, teamId) # {} THEN 409
    ELSE IF /\ channelId \in DOMAIN creators
            /\ creators[channelId].ownedByTeamId # teamId
    THEN 403
    ELSE 202

\* a rejected request changes nothing
PostCreator(channelId, teamId, customDescriptionLength, jobs) ==
    IF PostCreatorStatus(channelId, teamId) = 202
    THEN Accept(channelId, teamId, customDescriptionLength, jobs)
    ELSE UNCHANGED vars

----------------------------------------------------------------------------
(* processVideosAsync: one action per suspension point of the background run *)

AtPc(j, pc) == j \in DOMAIN run /\ run[j].pc = pc

\* the ChannelAIProcessing document written for job j with the given status
ProcessingRecord(j, status, r, lastError, canReprocess) ==
    [channelId |-> r.creatorId,
     teamId |-> creators[r.creatorId].ownedByTeamId,
     status |-> status,
     videosProcessed |-> IF status = "completed" THEN r.processedVideos ELSE 0,
     totalChunks |-> IF status = "completed" THEN r.totalChunks ELSE 0,
     failedVideos |-> IF status = "completed" THEN r.failedVideos ELSE 0,
     lastError |-> lastError,
     canReprocess |-> canReprocess]

\* outer catch block up to the write of the job record: status failed, error message stored
Fail(j, r, msg) ==
    /\ jobStore' = [jobStore EXCEPT ![j].status = "failed", ![j].error = msg,
                                   ![j].current = r.current]
    /\ run' = [run EXCEPT ![j] = [r EXCEPT !.pc = "writeFailed"]]
    /\ UNCHANGED <<processing, wrapper>>

\* processVideosAsync returns; the race of the wrapper settles unless the timer won it
Return(j) ==
    /\ run' = [run EXCEPT ![j] = Ended(run[j], "done")]
    /\ wrapper' = [wrapper EXCEPT ![j] = IF @ = "racing" THEN "settled" ELSE @]

\* what follows the video loop: post-processing validation, then re-validation
AfterLoop(j, r) ==
    IF NoContentAfterLoop(r.processedVideos, hasCustomDescription(r),
                          hasChannelDescription(r), hasWikipedia(r))
    THEN Fail(j, r, ErrNoContent)
    ELSE /\ run' = [run EXCEPT ![j] = [r EXCEPT !.pc = "revalidate"]]
         /\ UNCHANGED <<jobStore, processing, wrapper>>

\* jobStore.get, then status processing is stored
StartProcessing(j) ==
    /\ AtPc(j, "start")
    /\ IF j \notin DOMAIN jobStore
       THEN Return(j) /\ UNCHANGED <<jobStore, processing>>
       ELSE /\ jobStore' = [jobStore EXCEPT ![j].status = "processing"]
            /\ run' = [run EXCEPT ![j].pc = "writeProcessing"]
            /\ UNCHANGED <<processing, wrapper>>
    /\ UNCHANGED <<teams, creators, teamChanges>>
    /\ UNCHANGED retrievalVars

\* upsert of the "processing" record; a failed write is logged and ignored
WriteProcessingRecord(j, writeOutcomes) ==
    /\ AtPc(j, "writeProcessing")
    /\ \E written \in writeOutcomes :
        processing' = IF written
                      THEN Put(processing, j, ProcessingRecord(j, "processing", run[j], "", FALSE))
                      ELSE processing
    /\ run' = [run EXCEPT ![j].pc = "fetchVideos"]
    /\ UNCHANGED <<teams, creators, jobStore, wrapper, teamChanges>>
    /\ UNCHANGED retrievalVars

\* getChannelVideos and the write of progress.total
FetchVideos(j, rawVideoLists) ==
    /\ AtPc(j, "fetchVideos")
    /\ \E raw \in rawVideoLists :
        IF Len(raw) = 0
        THEN Fail(j, run[j], ErrChannelFetch)
        ELSE LET videos == getChannelVideos(raw, DefaultMaxVideos)
             IN  /\ jobStore' = [jobStore EXCEPT ![j].total = Len(videos)]
                 /\ run' = [run EXCEPT ![j].videos = videos, ![j].pc = "fetchInfo"]
                 /\ UNCHANGED <<processing, wrapper>>
    /\ UNCHANGED <<teams, creators, teamChanges>>
    /\ UNCHANGED retrievalVars

\* getChannelInfo, then the eligibility gate
FetchInfo(j, descriptionLengths, titleLengths) ==
    /\ AtPc(j, "fetchInfo")
    /\ \/ Fail(j, run[j], ErrChannelFetch)
       \/ \E descriptionLength \in descriptionLengths, titleLength \in titleLengths :
            LET r == [run[j] EXCEPT
                        !.infoFetched = TRUE,
                        !.channelDescriptionLength = descriptionLength,
                        !.wikipediaSummaryLength = WikipediaSummaryLength(titleLength)]
            IN  IF EligibilityFails(r.videos, hasCustomDescription(r),
                                    hasChannelDescription(r), hasWikipedia(r))
                THEN Fail(j, r, errorMsg(videosWithCaptions(r.videos),
                                         videosWithValidDuration(r.videos)))
                ELSE IF Len(r.videos) = 0
                THEN AfterLoop(j, r)
                ELSE /\ run' = [run EXCEPT ![j] = [r EXCEPT !.pc = "video"]]
                     /\ UNCHANGED <<jobStore, processing, wrapper>>
    /\ UNCHANGED <<teams, creators, teamChanges>>
    /\ UNCHANGED retrievalVars

\* one iteration of the video loop: chunks = 0 stands for a failed video
\* (no transcript, no documents, or an error thrown while storing); the write of the
\* progress that follows a stored video may throw, into the catch block of the iteration
ProcessVideo(j, chunkCounts, progressWrites) ==
    /\ AtPc(j, "video")
    /\ run[j].i < Len(run[j].videos)
    /\ \E chunks \in chunkCounts, progressWritten \in progressWrites :
        LET r == run[j]
            video == r.videos[r.i + 1]
            stored == InDurationBand(video) /\ chunks > 0
            written == stored /\ progressWritten
            r2 == [r EXCEPT
                     !.i = r.i + 1,
                     !.processedVideos = IF stored THEN @ + 1 ELSE @,
                     !.totalChunks = IF stored THEN @ + chunks ELSE @,
                     !.current = IF stored THEN r.i + 1 ELSE @,
                     !.failedVideos = IF written THEN @ ELSE @ + 1]
        IN  IF ~stored /\ ~VideoErrorCaught
            THEN Fail(j, r, ErrVideo)
            ELSE IF r2.i < Len(r.videos)
            THEN /\ run' = [run EXCEPT ![j] = r2]
                 /\ jobStore' = IF written THEN [jobStore EXCEPT ![j].current = r2.current]
                                ELSE jobStore
                 /\ UNCHANGED <<processing, wrapper>>
            ELSE IF stored
            THEN /\ run' = [run EXCEPT ![j] = [r2 EXCEPT !.pc = "revalidate"]]
                 /\ jobStore' = IF written THEN [jobStore EXCEPT ![j].current = r2.current]
                                ELSE jobStore
                 /\ UNCHANGED <<processing, wrapper>>
            ELSE AfterLoop(j, r2)
    /\ UNCHANGED <<teams, creators, teamChanges>>
    /\ UNCHANGED retrievalVars

\* re-validation of the owning team, then the update of the creator document
Revalidate(j) ==
    /\ AtPc(j, "revalidate")
    /\ LET r == run[j]
           team == teams[creators[r.creatorId].ownedByTeamId]
       IN  IF RevalidationError(team) # ""
           THEN Fail(j, r, RevalidationError(team)) /\ UNCHANGED creators
           ELSE /\ creators' = [creators EXCEPT ![r.creatorId].setupComplete = TRUE,
                                                ![r.creatorId].videosOfJob = j]
                /\ run' = [run EXCEPT ![j].pc = "storeContext"]
                /\ UNCHANGED <<jobStore, processing, wrapper>>
    /\ UNCHANGED <<teams, teamChanges>>
    /\ UNCHANGED retrievalVars

\* the chunks storeChannelContext builds: one per description longer than 50 characters
contextChunks(r) ==
    (IF hasChannelDescription(r) THEN 1 ELSE 0)
      + (IF hasCustomDescription(r) THEN 1 ELSE 0)
      + (IF hasWikipedia(r) THEN 1 ELSE 0)

\* whether the job goes on when storeChannelContext throws
ContextErrorCaught == TRUE

ErrContext == "Failed to create any channel context embeddings"

\* storeChannelContext, of whose chunks `failures` get no embedding (it throws when none
\* is left, which is logged and ignored), then the job is stored as completed
StoreContextAndComplete(j, contextFailures) ==
    /\ AtPc(j, "storeContext")
    /\ \E failures \in contextFailures :
         LET stored == Max(contextChunks(run[j]) - failures, 0)
             thrown == contextChunks(run[j]) > 0 /\ stored = 0
         IN  IF thrown /\ ~ContextErrorCaught
             THEN Fail(j, run[j], ErrContext)
             ELSE /\ jobStore' = [jobStore EXCEPT
                               ![j].status = "completed",
                               ![j].current = run[j].current,
                               ![j].result = <<[processedVideos |-> run[j].processedVideos,
                                                totalChunks |-> run[j].totalChunks,
                                                failedVideos |-> run[j].failedVideos]>>]
                  /\ run' = [run EXCEPT ![j].pc = "writeCompleted",
                                        ![j].contextChunks = stored]
                  /\ UNCHANGED <<processing, wrapper>>
    /\ UNCHANGED <<teams, creators, teamChanges>>
    /\ UNCHANGED retrievalVars

\* upsert of the "completed" record inside its own try/catch
WriteCompletedRecord(j, writeOutcomes) ==
    /\ AtPc(j, "writeCompleted")
    /\ \E written \in writeOutcomes :
         IF written
         THEN /\ processing' = Put(processing, j,
                                   ProcessingRecord(j, "completed", run[j], "", TRUE))
              /\ Return(j)
              /\ UNCHANGED jobStore
         ELSE IF StatusWriteErrorPropagates
         THEN Fail(j, run[j], ErrStatusWrite)
         ELSE Return(j) /\ UNCHANGED <<jobStore, processing>>
    /\ UNCHANGED <<teams, creators, teamChanges>>
    /\ UNCHANGED retrievalVars

\* outer catch block after the job record was written: upsert of the "failed" record
WriteFailedRecord(j, writeOutcomes) ==
    /\ AtPc(j, "writeFailed")
    /\ \E written \in writeOutcomes :
        processing' = IF written
                      THEN Put(processing, j,
                               ProcessingRecord(j, "failed", run[j], jobStore[j].error, TRUE))
                      ELSE processing
    /\ Return(j)
    /\ UNCHANGED <<teams, creators, jobStore, teamChanges>>
    /\ UNCHANGED retrievalVars

----------------------------------------------------------------------------
(* processVideosAsyncWithTimeout, the environment, and the specification *)

\* the setTimeout callback rejects timeoutPromise: the race is lost by the run and the
\* catch block of the wrapper logs the error
TimeoutFires(j) ==
    /\ j \in DOMAIN wrapper
    /\ wrapper[j] = "racing"
    /\ wrapper' = [wrapper EXCEPT ![j] = "timedOut"]
    /\ UNCHANGED <<teams, creators, jobStore, processing, run, teamChanges>>
    /\ UNCHANGED retrievalVars

\* positions at which the run awaits the video source, the embedding provider or the vector store
ExternalCallPcs == {"fetchVideos", "fetchInfo", "video", "storeContext"}

\* an awaited external call never settles
Hang(j) ==
    /\ j \in DOMAIN run
    /\ run[j].pc \in ExternalCallPcs
    /\ run' = [run EXCEPT ![j] = Ended(run[j], "hung")]
    /\ UNCHANGED <<teams, creators, jobStore, processing, wrapper, teamChanges>>
    /\ UNCHANGED retrievalVars

\* the worker process dies: its runs and timers execute no further step
Crash ==
    /\ \E j \in DOMAIN run : run[j].pc \notin {"done", "crashed"}
    /\ run' = [j \in DOMAIN run |->
                 IF run[j].pc = "done" THEN run[j] ELSE Ended(run[j], "crashed")]
    /\ wrapper' = [j \in DOMAIN wrapper |-> IF wrapper[j] = "racing" THEN "dead" ELSE wrapper[j]]
    /\ UNCHANGED <<teams, creators, jobStore, processing, teamChanges>>
    /\ UNCHANGED retrievalVars

\* the job key reaches its TTL, JOB_TTL_SECONDS (24 h) after the last write of the record:
\* the run writes no more, and the 30-minute timer set before that write is no longer pending
Expire(j) ==
    /\ j \in DOMAIN jobStore
    /\ run[j].pc \in {"done", "hung", "crashed"}
    /\ wrapper[j] # "racing"
    /\ jobStore' = Remove(jobStore, j)
    /\ UNCHANGED <<teams, creators, processing, run, wrapper, teamChanges>>
    /\ UNCHANGED retrievalVars

\* the team document changes in the orgs database (subscription lapses, add-on cancelled, ...)
TeamChanges(t, doc) ==
    /\ teamChanges < MaxTeamChanges
    /\ doc # teams[t]
    /\ teams' = [teams EXCEPT ![t] = doc]
    /\ teamChanges' = teamChanges + 1
    /\ UNCHANGED <<creators, jobStore, processing, run, wrapper>>
    /\ UNCHANGED retrievalVars

\* the inputs the environment may supply
FullInputs ==
    [jobs |-> {1},
     requests |-> Channels \X Teams,
     rawVideoLists |-> RawVideoLists,
     descriptionLengths |-> DescriptionLengths,
     titleLengths |-> TitleLengths,
     customDescriptionLengths |-> CustomDescriptionLengths,
     chunkCounts |-> 0..MaxChunks,
     writeOutcomes |-> BOOLEAN,
     contextFailures |-> {0, 1, 3},
     progressWrites |-> BOOLEAN,
     teamDocs |-> TeamDocs]

\* a small sample of inputs for runs that execute concurrently: the channel has one
\* captioned ten-minute video and a long description, or the video source fails
SampleInputs ==
    [jobs |-> JobIds,
     requests |-> {<<"c1", "t1">>, <<"c2", "t2">>},
     rawVideoLists |-> {<<>>, <<[durationMinutes |-> 10, hasCaptions |-> TRUE]>>},
     descriptionLengths |-> {51},
     titleLengths |-> {0},
     customDescriptionLengths |-> {0},
     chunkCounts |-> {1},
     writeOutcomes |-> {TRUE},
     contextFailures |-> {0},
     progressWrites |-> {TRUE},
     teamDocs |-> {[found |-> TRUE, sub_status |-> "canceled", has_channel_ai |-> TRUE]}]

RunStep(j, in) ==
    \/ StartProcessing(j)
    \/ WriteProcessingRecord(j, in.writeOutcomes)
    \/ FetchVideos(j, in.rawVideoLists)
    \/ FetchInfo(j, in.descriptionLengths, in.titleLengths)
    \/ ProcessVideo(j, in.chunkCounts, in.progressWrites)
    \/ Revalidate(j)
    \/ StoreContextAndComplete(j, in.contextFailures)
    \/ WriteCompletedRecord(j, in.writeOutcomes)
    \/ WriteFailedRecord(j, in.writeOutcomes)

NextWith(in) ==
    \/ \E request \in in.requests, len \in in.customDescriptionLengths :
          PostCreator(request[1], request[2], len, in.jobs)
    \/ \E j \in JobIds : RunStep(j, in)
    \/ \E j \in JobIds : TimeoutFires(j)
    \/ \E j \in JobIds : Hang(j)
    \/ \E j \in JobIds : Expire(j)
    \/ \E t \in Teams, doc \in in.teamDocs : TeamChanges(t, doc)
    \/ Crash

\* several jobs side by side, sampled inputs
Next == NextWith(SampleInputs)

Spec == Init /\ [][Next]_vars

\* one job, every input of the bounded sets
PipelineNext == NextWith(FullInputs)

PipelineSpec == Init /\ [][PipelineNext]_vars

TypeOK ==
    /\ teams \in [Teams -> TeamDocs]
    /\ DOMAIN creators \subseteq Channels
    /\ DOMAIN jobStore \subseteq JobIds
    /\ DOMAIN processing \subseteq JobIds
    /\ DOMAIN run \subseteq JobIds
    /\ DOMAIN wrapper = DOMAIN run
    /\ \A j \in DOMAIN jobStore :
         jobStore[j].status \in {"queued", "processing", "completed", "failed"}
    /\ teamChanges \in 0..MaxTeamChanges

----------------------------------------------------------------------------
(* Chunk storage: storeTranscriptChunks (src/src/lib/rag.ts) over the vector index
   (src/src/lib/pinecone.ts) and the collection transcript_chunks *)

MaxDocuments == 2     \* documents in transcript_chunks

PineconeRetries == 2
OpenAIRetries == 3
SIMILARITY_THRESHOLD == 25     \* 0.25, scores are counted in hundredths

\* outputs of the chunker for one video: none, one chunk, an empty chunk first, two chunks
ChunkLists == {<<>>, <<"a">>, <<"", "a">>, <<"a", "a">>}

\* variant: one retry fewer than configured
withRetry_mut(failures, retries) == failures < retries

\* withRetry: the operation fails `failures` times before it would succeed; p-retry makes
\* one attempt and up to `retries` further ones, then rejects with the last error
withRetry(failures, retries) == failures <= retries

\* id of a vector
VectorId(creatorId, videoId, chunkIndex) ==
    creatorId \o "_" \o videoId \o "_" \o ToString(chunkIndex)

\* the chunks with their position in the chunker's output, counted from 0
IndexedChunks(chunks) ==
    [i \in 1..Len(chunks) |-> [text |-> chunks[i], chunkIndex |-> i - 1]]

\* variant: the chunks are numbered after the empty ones were dropped
chunksWithEmbeddings_mut(chunks) ==
    LET kept == SelectSeq(chunks, LAMBDA text : text # "")
    IN  [i \in 1..Len(kept) |-> [text |-> kept[i], chunkIndex |-> i - 1]]

\* the embedding loop skips empty chunks and keeps the loop index as chunkIndex
chunksWithEmbeddings(chunks) ==
    SelectSeq(IndexedChunks(chunks), LAMBDA chunk : chunk.text # "")

Range(seq) == {seq[i] : i \in 1..Len(seq)}

\* the records storeToPinecone upserts
PineconeVectors(creatorId, videoId, embedded) ==
    {[id |-> VectorId(creatorId, videoId, chunk.chunkIndex),
      creatorId |-> creatorId,
      videoId |-> videoId,
      chunkIndex |-> chunk.chunkIndex,
      text |-> chunk.text] : chunk \in Range(embedded)}

\* the documents inserted into transcript_chunks
MongoDocuments(creatorId, videoId, embedded) ==
    {[creatorId |-> creatorId,
      videoId |-> videoId,
      chunkIndex |-> chunk.chunkIndex,
      text |-> chunk.text] : chunk \in Range(embedded)}

\* index.upsert: a record replaces the record with the same id
upsert(index, records) ==
    [id \in DOMAIN index \cup {r.id : r \in records} |->
        IF \E r \in records : r.id = id
        THEN CHOOSE r \in records : r.id = id
        ELSE index[id]]

\* collection.insertMany: every document is added, the collection has no unique index
insertMany(collection, documents) == collection (+) SetToBag(documents)

ErrNoChunks == "No chunks provided for storage"
ErrEmbedding == "Embedding creation failed"
ErrNoEmbeddings == "No valid embeddings created from chunks"
ErrPinecone == "Pinecone storage failed"
ErrMongo == "MongoDB storage failed"

\* createEmbedding: one call of the embedding provider, which fails `failures` times
\* before it would succeed; TRUE when an embedding is returned
createEmbedding(failures) == failures = 0

\* the error storeTranscriptChunks throws for the given provider behaviour, "" for none
storeError(chunks, embeddingFailures, upsertFailures, insertFails) ==
    IF Len(chunks) = 0 THEN ErrNoChunks
    ELSE IF ~createEmbedding(embeddingFailures) /\ Len(chunksWithEmbeddings(chunks)) > 0
    THEN ErrEmbedding
    ELSE IF Len(chunksWithEmbeddings(chunks)) = 0 THEN ErrNoEmbeddings
    ELSE IF ~withRetry(upsertFailures, PineconeRetries) THEN ErrPinecone
    ELSE IF insertFails THEN ErrMongo
    ELSE ""

\* storeTranscriptChunks(creatorId, videoId, chunks): embeddings, vector upsert, insertMany
storeTranscriptChunks(creatorId, videoId, chunks, embeddingFailures, upsertFailures, insertFails) ==
    LET embedded == chunksWithEmbeddings(chunks)
        error == storeError(chunks, embeddingFailures, upsertFailures, insertFails)
        upserted == IF error \in {"", ErrMongo}
                    THEN PineconeVectors(creatorId, videoId, embedded) ELSE {}
        inserted == IF error = ""
                    THEN MongoDocuments(creatorId, videoId, embedded) ELSE {}
    IN  /\ BagCardinality(transcript_chunks) + Len(chunks) <= MaxDocuments
        /\ vectors' = upsert(vectors, upserted)
        /\ transcript_chunks' = insertMany(transcript_chunks, inserted)
        /\ call' = [op |-> "store",
                    creatorId |-> creatorId,
                    videoId |-> videoId,
                    chunks |-> chunks,
                    embeddingFailures |-> embeddingFailures,
                    error |-> error,
                    upserted |-> upserted,
                    inserted |-> inserted]
        /\ UNCHANGED pipelineVars

\* the calls of storeTranscriptChunks made by ingestion runs
StoreRequests == {<<"c1", "v1">>, <<"c1", "v2">>, <<"c2", "v1">>}

StoreNext ==
    \E request \in StoreRequests, chunks \in ChunkLists,
       embeddingFailures \in 0..1, upsertFailures \in 0..(PineconeRetries + 1),
       insertFails \in BOOLEAN :
       storeTranscriptChunks(request[1], request[2], chunks,
                             embeddingFailures, upsertFailures, insertFails)

\* chunk storage on its own
StoreSpec == Init /\ [][StoreNext]_vars

----------------------------------------------------------------------------
(* Search: searchSimilarChunks of the vector index (src/src/lib/pinecone.ts) and
   hybridSearch (src/src/lib/hybrid-search.ts).  Scores are counted in hundredths,
   hybrid scores in ten-thousandths.  A text is a record of its first 100 characters
   (head), the rest (tail) and the words that occur in it. *)

MinSearchLimit == 10
SemanticTopScore == 80        \* 0.8
SemanticScoreStep == 5        \* 0.05
SemanticWeight == 7           \* 0.7
KeywordWeight == 3            \* 0.3
MinWordLength == 2            \* a query word counts when it is longer than this

\* `limit` of the hybrid searches
Limits == {1, 2, 7}

\* processed queries, as lists of lower-case words
Queries == {<<"ai">>, <<"cat", "dog">>}

\* keyword lists of processed queries
KeywordLists == {<<>>, <<"cat">>}

Text(head, tail, words) == [head |-> head, tail |-> tail, words |-> words]

Match(text, score) == [text |-> text, score |-> score]

NoText == Text("", "", {})

\* answers of the vector index to a query, best match first
SampleMatches ==
    {<<>>,
     <<Match(Text("a", "1", {}), 24)>>,
     <<Match(Text("a", "1", {}), 90), Match(Text("b", "1", {"cat"}), 25)>>,
     <<Match(Text("a", "1", {}), 90), Match(Text("b", "1", {"cat"}), 24)>>,
     <<Match(Text("a", "1", {}), 90), Match(Text("a", "2", {"cat", "dog"}), 90)>>,
     <<Match(NoText, 90), Match(Text("b", "1", {"ai"}), 0)>>,
     <<Match(Text("a", "1", {}), 90), Match(Text("b", "1", {}), 90),
       Match(Text("c", "1", {"cat", "dog"}), 90)>>,
     <<Match(Text("a", "1", {}), 90), Match(Text("b", "1", {}), 90),
       Match(Text("c", "1", {}), 90), Match(Text("d", "1", {"cat", "dog"}), 90)>>}

\* an answer of topK matches that all score 0.9
FullAnswer(topK) == [i \in 1..topK |-> Match(Text(ToString(i), "1", {}), 90)]

ProviderAnswers(topK) == {m \in SampleMatches : Len(m) <= topK} \cup {FullAnswer(topK)}

\* answers of the text search on transcript_chunks, best textScore first
SampleDocuments ==
    {<<>>,
     <<Match(Text("d", "1", {"cat"}), 150)>>,
     <<Match(Text("d", "1", {"cat"}), 150), Match(Text("e", "1", {"cat"}), 150)>>,
     <<Match(Text("a", "3", {"cat"}), 150)>>,
     <<Match(Text("d", "1", {}), 196), Match(Text("e", "1", {"cat"}), 50)>>,
     <<Match(Text("d", "1", {"cat", "dog"}), 150)>>}

\* the similarity filter of searchSimilarChunks
AboveThreshold(score) == score >= SIMILARITY_THRESHOLD

\* variant: the catch block of the query rethrows
QueryErrorCaught_mut == FALSE

\* whether searchSimilarChunks catches the error of a failed query
QueryErrorCaught == TRUE

\* searchSimilarChunks of the vector index: the texts of the matches at or above the
\* threshold, in the order of the provider; nothing when the query failed
searchPinecone(matches, queryFailures) ==
    IF ~withRetry(queryFailures, PineconeRetries) THEN <<>>
    ELSE LET filtered == SelectSeq(matches, LAMBDA match : AboveThreshold(match.score))
             texts == [i \in 1..Len(filtered) |-> filtered[i].text]
         IN  SelectSeq(texts, LAMBDA text : text # NoText)

\* no hybrid search is between its start and its end
NoSearchRunning == call.op = "hybrid" => call.pc = "done"

\* searchSimilarChunks(creatorId, queryEmbedding, topK) called directly
searchSimilarChunks(topK, matches, queryFailures) ==
    LET failed == ~withRetry(queryFailures, PineconeRetries)
        raised == failed /\ ~QueryErrorCaught
    IN  /\ NoSearchRunning
        /\ call' = [op |-> "query",
                    matches |-> matches,
                    failures |-> queryFailures,
                    failed |-> failed,
                    raised |-> raised,
                    results |-> IF raised THEN <<>>
                                ELSE searchPinecone(matches, queryFailures)]
        /\ UNCHANGED <<vectors, transcript_chunks>>
        /\ UNCHANGED pipelineVars

\* storeTranscriptChunks of the vector index called directly with embedded chunks
storeToPinecone(creatorId, videoId, chunks, upsertFailures) ==
    LET failed == ~withRetry(upsertFailures, PineconeRetries)
        upserted == IF failed THEN {}
                    ELSE PineconeVectors(creatorId, videoId, IndexedChunks(chunks))
    IN  /\ NoSearchRunning
        /\ vectors' = upsert(vectors, upserted)
        /\ call' = [op |-> "upsert",
                    chunks |-> chunks,
                    failures |-> upsertFailures,
                    failed |-> failed,
                    raised |-> failed /\ Len(chunks) > 0,
                    upserted |-> upserted]
        /\ UNCHANGED transcript_chunks
        /\ UNCHANGED pipelineVars

\* whether performSemanticSearch catches the errors of its provider calls
SemanticErrorCaught == TRUE

\* variant: performKeywordSearch lets the error of the text search escape
KeywordErrorCaught_mut == FALSE

\* whether performKeywordSearch catches the error of the text search
KeywordErrorCaught == TRUE

\* the score performSemanticSearch gives to the result at position index (from 0)
SemanticScore(index) == SemanticTopScore - index * SemanticScoreStep

\* performSemanticSearch: the texts found by the vector index, scored by their position
performSemanticSearch(matches, embeddingFails, queryFailures) ==
    IF embeddingFails THEN <<>>
    ELSE LET chunks == searchPinecone(matches, queryFailures)
         IN  [i \in 1..Len(chunks) |->
                [text |-> chunks[i], score |-> SemanticScore(i - 1), source |-> "semantic"]]

\* performKeywordSearch: the documents found by the text search with their textScore
performKeywordSearch(documents, keywordFails) ==
    IF keywordFails THEN <<>>
    ELSE [i \in 1..Len(documents) |->
            [text |-> documents[i].text, score |-> documents[i].score, source |-> "keyword"]]

\* the elements of seq at the positions that satisfy Keep, in their order
FilterIndexed(seq, Keep(_)) ==
    LET F[i \in 0..Len(seq)] ==
            IF i = 0 THEN <<>>
            ELSE IF Keep(i) THEN Append(F[i - 1], seq[i]) ELSE F[i - 1]
    IN  F[Len(seq)]

\* a result is dropped when an earlier one has the same first 100 characters
uniqueResults(allResults) ==
    FilterIndexed(allResults,
                  LAMBDA i : ~\E k \in 1..(i - 1) : allResults[k].text.head = allResults[i].text.head)

\* number of query words longer than two characters that occur in the text
keywordMatches(query, text) ==
    Cardinality({i \in 1..Len(query) : Len(query[i]) > MinWordLength /\ query[i] \in text.words})

hybridScore(result, query) ==
    result.score
      * (IF result.source = "semantic" THEN SemanticWeight
         ELSE IF result.source = "keyword" THEN KeywordWeight ELSE 10)
      * (10 + keywordMatches(query, result.text))

\* variant: of two results with the same score the later one comes first
ComesFirst_mut(a, b) == a.score > b.score

\* whether result a stays before result b when b is inserted after it
ComesFirst(a, b) == a.score >= b.score

\* Array.prototype.sort with (a, b) => b.score - a.score: descending and stable
SortByScore(results) ==
    LET Insert(sorted, x) ==
            LET before == Cardinality({i \in 1..Len(sorted) :
                               \A k \in 1..i : ComesFirst(sorted[k], x)})
            IN  SubSeq(sorted, 1, before) \o <<x>> \o SubSeq(sorted, before + 1, Len(sorted))
        S[i \in 0..Len(results)] ==
            IF i = 0 THEN <<>> ELSE Insert(S[i - 1], results[i])
    IN  S[Len(results)]

fuseAndRankResults(semanticResults, keywordResults, query, limit) ==
    LET allResults == semanticResults \o keywordResults
        unique == uniqueResults(allResults)
        scoredResults == [i \in 1..Len(unique) |->
                            [text |-> unique[i].text,
                             score |-> hybridScore(unique[i], query),
                             source |-> "hybrid"]]
    IN  Take(SortByScore(scoredResults), limit)

searchLimit(limit) == Max(limit * 2, MinSearchLimit)

\* hybridSearch starts: the query is preprocessed and both searches are started
hybridSearch(limit, query, keywords) ==
    /\ NoSearchRunning
    /\ call' = [op |-> "hybrid",
                pc |-> "halves",
                limit |-> limit,
                query |-> query,
                keywords |-> keywords,
                semanticDone |-> FALSE,
                semanticFailed |-> FALSE,
                semanticResults |-> <<>>,
                keywordDone |-> keywords = <<>>,
                first |-> IF keywords = <<>> THEN "keyword" ELSE "none",
                keywordFailed |-> FALSE,
                keywordResults |-> <<>>,
                rejected |-> FALSE,
                results |-> <<>>,
                raised |-> FALSE]
    /\ UNCHANGED <<vectors, transcript_chunks>>
    /\ UNCHANGED pipelineVars

\* the semantic half settles
SemanticHalf(embeddingFails, queryFailures) ==
    /\ call.op = "hybrid"
    /\ call.pc = "halves"
    /\ ~call.semanticDone
    /\ \E matches \in ProviderAnswers(searchLimit(call.limit)) :
        LET failed == embeddingFails \/ ~withRetry(queryFailures, PineconeRetries)
        IN  call' = [call EXCEPT
                       !.semanticDone = TRUE,
                       !.first = IF @ = "none" THEN "semantic" ELSE @,
                       !.semanticFailed = failed,
                       !.rejected = @ \/ (embeddingFails /\ ~SemanticErrorCaught),
                       !.semanticResults =
                            performSemanticSearch(matches, embeddingFails, queryFailures)]
    /\ UNCHANGED <<vectors, transcript_chunks>>
    /\ UNCHANGED pipelineVars

\* the keyword half settles
KeywordHalf(keywordFails) ==
    /\ call.op = "hybrid"
    /\ call.pc = "halves"
    /\ ~call.keywordDone
    /\ \E documents \in SampleDocuments :
        call' = [call EXCEPT
                   !.keywordDone = TRUE,
                   !.first = IF @ = "none" THEN "keyword" ELSE @,
                   !.keywordFailed = keywordFails,
                   !.rejected = @ \/ (keywordFails /\ ~KeywordErrorCaught),
                   !.keywordResults = performKeywordSearch(documents, keywordFails)]
    /\ UNCHANGED <<vectors, transcript_chunks>>
    /\ UNCHANGED pipelineVars

\* variant: the halves are joined with Promise.race
PromiseAllSettled_mut == call.semanticDone \/ call.keywordDone

\* Promise.all over the two halves resolves when both have
PromiseAllSettled == call.semanticDone /\ call.keywordDone

\* Promise.all has settled: the results are fused, or the catch block of hybridSearch
\* answers with no results
FuseAndReturn ==
    /\ call.op = "hybrid"
    /\ call.pc = "halves"
    /\ PromiseAllSettled
    /\ call' = [call EXCEPT
                  !.pc = "done",
                  !.results = IF call.rejected THEN <<>>
                              ELSE fuseAndRankResults(call.semanticResults, call.keywordResults,
                                                      call.query, call.limit)]
    /\ UNCHANGED <<vectors, transcript_chunks>>
    /\ UNCHANGED pipelineVars

SearchNext ==
    \/ \E limit \in Limits, query \in Queries, keywords \in KeywordLists :
          hybridSearch(limit, query, keywords)
    \/ \E embeddingFails \in BOOLEAN, queryFailures \in 0..(PineconeRetries + 1) :
          SemanticHalf(embeddingFails, queryFailures)
    \/ \E keywordFails \in BOOLEAN : KeywordHalf(keywordFails)
    \/ FuseAndReturn
    \/ \E topK \in {1, MinSearchLimit}, queryFailures \in 0..(PineconeRetries + 1) :
          \E matches \in ProviderAnswers(topK) :
             searchSimilarChunks(topK, matches, queryFailures)
    \/ \E request \in StoreRequests, chunks \in ChunkLists,
          upsertFailures \in 0..(PineconeRetries + 1) :
          storeToPinecone(request[1], request[2], chunks, upsertFailures)

\* searches, and direct calls of the vector index
SearchSpec == Init /\ [][SearchNext]_vars

----------------------------------------------------------------------------
(* Timestamp alignment: matchChunkToTimestamp (src/unnamed/part_001, imported as
   ./timestamp-matching) as chunkTextWithMetadata (src/src/lib/rag.ts) applies it to the
   chunks of one video.  A text is a list of words; the sample fingerprints are shorter
   than FingerprintPrefix characters, so a prefix never cuts a word. *)

FingerprintWords == 20
FingerprintPrefix == 50
MinFingerprintWordLength == 2

Segment(text, timestampSeconds, endSeconds) ==
    [text |-> text, timestampSeconds |-> timestampSeconds, endSeconds |-> endSeconds]

\* texts of chunks and of segments
SampleTexts == {<<"aaa">>, <<"bbb">>, <<"AAA", "it">>, <<"ccc", "bbb">>}

\* the segment lists of a transcript: ordered by start time, each start <= end
SegmentLists ==
    {<<>>,
     <<Segment(<<"aaa">>, 0, 10), Segment(<<"bbb">>, 10, 20)>>,
     <<Segment(<<"aaa">>, 5, 6), Segment(<<"ddd">>, 6, 8)>>,
     <<Segment(<<"0:05", "aaa">>, 0, 10), Segment(<<"bbb">>, 10, 20), Segment(<<"aaa">>, 20, 30)>>,
     <<Segment(<<"ddd">>, 0, 40), Segment(<<"it">>, 40, 45), Segment(<<"bbb">>, 45, 90)>>,
     <<Segment(<<"ddd">>, 0, 7), Segment(<<"eee">>, 7, 9)>>}

\* the outputs of the text splitter for one video
ChunkTextLists ==
    UNION {[1..n -> SampleTexts] : n \in 1..MaxChunks}
        \cup {<<<<"aaa">>, <<"bbb">>, <<"aaa">>>>}

WellFormed(segments) ==
    /\ \A i \in 1..Len(segments) : segments[i].timestampSeconds <= segments[i].endSeconds
    /\ \A i, k \in 1..Len(segments) :
          i < k => segments[i].timestampSeconds <= segments[k].timestampSeconds

toLowerCase(word) == IF word = "AAA" THEN "aaa" ELSE word

\* a word that the pattern \d+:\d+ removes entirely
IsTimestamp(word) == word \in {"0:05"}

\* number of characters of the words joined by single spaces
JoinedLength(words) ==
    LET L[i \in 0..Len(words)] == IF i = 0 THEN 0 ELSE L[i - 1] + Len(words[i]) + 1
    IN  IF Len(words) = 0 THEN 0 ELSE L[Len(words)] - 1

\* substring(0, n) of the joined words, for fingerprints whose cut falls between words
Prefix(words, n) ==
    LET fits == {k \in 0..Len(words) : JoinedLength(SubSeq(words, 1, k)) <= n}
    IN  SubSeq(words, 1, CHOOSE k \in fits : \A m \in fits : m <= k)

\* the fingerprint of a chunk: lower case, words longer than two characters, first twenty
chunkFingerprint(chunkText) ==
    Take(SelectSeq([i \in 1..Len(chunkText) |-> toLowerCase(chunkText[i])],
                   LAMBDA w : Len(w) > MinFingerprintWordLength),
         FingerprintWords)

\* preprocessTimestampSegments: the same after the timestamps were removed from the text
fingerprint(segmentText) ==
    chunkFingerprint(SelectSeq(segmentText, LAMBDA w : ~IsTimestamp(w)))

\* String.prototype.includes on joined words: part occurs in whole as a run of words;
\* the empty string occurs in every string
includes(whole, part) ==
    \E start \in 0..(Len(whole) - Len(part)) :
        \A i \in 1..Len(part) : whole[start + i] = part[i]

\* whether the loop of matchChunkToTimestamp stops at this segment
SegmentMatches(chunkText, segment) ==
    \/ includes(chunkFingerprint(chunkText), Prefix(fingerprint(segment.text), FingerprintPrefix))
    \/ includes(fingerprint(segment.text), Prefix(chunkFingerprint(chunkText), FingerprintPrefix))

\* matchChunkToTimestamp(chunkText, segments, chunkIndex, totalChunks)
matchChunkToTimestamp(chunkText, segments, chunkIndex, totalChunks) ==
    IF Len(segments) = 0
    THEN [startTime |-> 0, endTime |-> 0, matched |-> FALSE]
    ELSE LET matching == {i \in 1..Len(segments) : SegmentMatches(chunkText, segments[i])}
             totalDuration == segments[Len(segments)].endSeconds
         IN  IF matching # {}
             THEN LET first == CHOOSE i \in matching : \A k \in matching : i <= k
                  IN  [startTime |-> segments[first].timestampSeconds,
                       endTime |-> segments[first].endSeconds,
                       matched |-> TRUE]
             ELSE [startTime |-> (chunkIndex * totalDuration) \div totalChunks,
                   endTime |-> ((chunkIndex + 1) * totalDuration) \div totalChunks,
                   matched |-> FALSE]

\* chunkTextWithMetadata: every chunk of the splitter's output is aligned in turn
chunkTextWithMetadata(textChunks, timestampSegments) ==
    /\ call' = [op |-> "align",
                chunks |-> textChunks,
                segments |-> timestampSegments,
                documents |-> [i \in 1..Len(textChunks) |->
                                 matchChunkToTimestamp(textChunks[i], timestampSegments,
                                                       i - 1, Len(textChunks))]]
    /\ UNCHANGED <<vectors, transcript_chunks>>
    /\ UNCHANGED pipelineVars

AlignNext ==
    \E textChunks \in ChunkTextLists, timestampSegments \in SegmentLists :
        chunkTextWithMetadata(textChunks, timestampSegments)

\* timestamp alignment on its own
AlignSpec == Init /\ [][AlignNext]_vars

----------------------------------------------------------------------------
(* Retries: withRetry (src/src/lib/query-preprocessing.ts, imported as ./retry) runs an
   operation under p-retry.  An error message is the set of the marker texts it contains. *)

DefaultRetries == 3

\* `retries` of DEFAULT_CONFIG and of RETRY_CONFIGS
RetryCounts == {DefaultRetries, PineconeRetries}

\* messages of the errors an external call may throw
ErrorMessages ==
    {{"ETIMEDOUT"}, {"503"}, {"429"},
     {"unauthorized"}, {"EAUTH"}, {"EAUTH", "unauthorized"},
     {"403", "quota"}, {"400"}, {"400", "500", "429"},
     {"invalid", "input"},
     {"Video unavailable"}, {"Private video"}, {"Video removed"}}

\* message.includes(text)
messageIncludes(message, text) == text \in message

\* left ?? right: the right side is used only when the left one is null or undefined, which
\* a boolean never is
NullishCoalescing(left, right) == IF left \in BOOLEAN THEN left ELSE right

isNonRetryableError(message) ==
    \/ /\ messageIncludes(message, "400")
       /\ messageIncludes(message, "500")
       /\ messageIncludes(message, "429")
    \/ NullishCoalescing(messageIncludes(message, "EAUTH"),
                         messageIncludes(message, "unauthorized"))
    \/ messageIncludes(message, "invalid") /\ messageIncludes(message, "input")
    \/ messageIncludes(message, "Video unavailable")
    \/ messageIncludes(message, "Private video")
    \/ messageIncludes(message, "Video removed")

\* variant: p-retry is given no limit
retriesLeft_mut(attemptNumber, retries) == 1

\* the further attempts p-retry may make after attempt attemptNumber has failed
retriesLeft(attemptNumber, retries) == Max(retries - (attemptNumber - 1), 0)

\* no call of withRetry is between its first attempt and its result
NoRetryRunning == call.op = "retry" => call.outcome # "pending"

\* withRetry(operation, config): the operation fails `failures` times with the given message
\* before it would succeed; nothing has been attempted yet
StartRetry(retries, message, failures) ==
    /\ NoRetryRunning
    /\ call' = [op |-> "retry",
                retries |-> retries,
                message |-> message,
                failures |-> failures,
                attempts |-> 0,
                outcome |-> "pending",
                error |-> {}]
    /\ UNCHANGED <<vectors, transcript_chunks>>
    /\ UNCHANGED pipelineVars

\* one attempt: the callback given to pRetry runs the operation once
Attempt ==
    /\ call.op = "retry"
    /\ call.outcome = "pending"
    /\ LET attemptNumber == call.attempts + 1
       IN  call' = [call EXCEPT
                      !.attempts = attemptNumber,
                      !.outcome =
                          IF attemptNumber > call.failures THEN "resolved"
                          ELSE IF isNonRetryableError(call.message) THEN "rejected"
                          ELSE IF retriesLeft(attemptNumber, call.retries) = 0 THEN "rejected"
                          ELSE "pending",
                      !.error = IF attemptNumber > call.failures THEN {} ELSE call.message]
    /\ UNCHANGED <<vectors, transcript_chunks>>
    /\ UNCHANGED pipelineVars

RetryNext ==
    \/ \E retries \in RetryCounts, message \in ErrorMessages, failures \in 0..(DefaultRetries + 2) :
          StartRetry(retries, message, failures)
    \/ Attempt

\* calls of withRetry on their own
RetrySpec == Init /\ [][RetryNext]_vars

----------------------------------------------------------------------------
(* Properties *)

JobChannel(j) == run[j].creatorId

JobTeam(j) == creators[run[j].creatorId].ownedByTeamId

Terminal(j) == j \in DOMAIN jobStore /\ jobStore[j].status \in {"completed", "failed"}

\* the ChannelAIProcessing record of job j says "processing" for the pair (c, t)
RecordedProcessing(j, c, t) ==
    /\ j \in DOMAIN processing
    /\ processing[j].channelId = c
    /\ processing[j].teamId = t
    /\ processing[j].status = "processing"

Entitled(team) == team.found /\ team.sub_status = "active" /\ team.has_channel_ai

\* C1: for every (channelId, teamId) pair, at most one job of that pair is in status
\* processing at any time.
C1_AtMostOneProcessing ==
    \A c \in Channels, t \in Teams :
        Cardinality({j \in DOMAIN jobStore :
                        /\ jobStore[j].status = "processing"
                        /\ JobChannel(j) = c
                        /\ JobTeam(j) = t}) <= 1

\* C2: a request for a pair that some record marks as processing is rejected (with 409
\* when the team validation passes), and no step creates a job record or starts a run
\* for that pair.
C2_RejectedWhileProcessing ==
    [][\A c \in Channels, t \in Teams :
          (\E j \in JobIds : RecordedProcessing(j, c, t)) =>
              /\ PostCreatorStatus(c, t) \in {403, 404, 409}
              /\ Entitled(teams[t]) => PostCreatorStatus(c, t) = 409
              /\ \A j \in DOMAIN run' \ DOMAIN run :
                    ~(run'[j].creatorId = c /\ creators'[c].ownedByTeamId = t)
              /\ \A j \in DOMAIN jobStore' \ DOMAIN jobStore :
                    ~(run'[j].creatorId = c /\ creators'[c].ownedByTeamId = t)]_vars

\* a pair is recorded as processing, its team is entitled, a job slot is free, and the
\* handler answers 409
C2_Witness ==
    \E c \in Channels, t \in Teams :
        /\ \E j \in JobIds : RecordedProcessing(j, c, t)
        /\ Entitled(teams[t])
        /\ Cardinality(DOMAIN run) < MaxJobs
        /\ PostCreatorStatus(c, t) = 409

C4_TimeoutMarksFailed ==
    \A j \in DOMAIN jobStore :
        (wrapper[j] = "timedOut" /\ run[j].pc \in {"done", "hung"}) =>
            /\ jobStore[j].status = "failed"
            /\ jobStore[j].error = ErrTimeout

\* C5: after the timeout has fired for a job, a request for its pair is not rejected as a
\* duplicate of that job.
C5_TimeoutReleasesLock ==
    \A j \in DOMAIN run :
        wrapper[j] = "timedOut" =>
            ~(/\ j \in ongoingProcessing(JobChannel(j), JobTeam(j))
              /\ PostCreatorStatus(JobChannel(j), JobTeam(j)) = 409)

\* C6: once a job is completed or failed, its channel is no longer marked as being
\* processed by it, so that job does not make the next request end in 409.
C6_TerminalJobReleasesChannel ==
    \A j \in DOMAIN run :
        Terminal(j) => j \notin ongoingProcessing(JobChannel(j), JobTeam(j))

\* C7: after the worker has crashed and the job record has expired, the crashed job no
\* longer makes requests for its pair end in 409.
C7_CrashDoesNotWedge ==
    \A j \in DOMAIN run :
        (run[j].pc = "crashed" /\ j \notin DOMAIN jobStore) =>
            j \notin ongoingProcessing(JobChannel(j), JobTeam(j))

\* C8: a job whose run and timer have no step left (the worker did not crash) is completed
\* or failed.
C8_QuiescentJobsAreTerminal ==
    \A j \in DOMAIN jobStore :
        (run[j].pc \in {"done", "hung"} /\ wrapper[j] # "racing") => Terminal(j)

AllVideosHandled(r) == r.i = Len(r.videos)

\* C9: the run leaves the re-validation towards completion only if the team exists, is
\* active and has the add-on, otherwise the job is stored as failed with the entitlement
\* error; the job is stored as completed only by a run that passed it after the video loop.
C9_CompletedOnlyAfterRevalidation ==
    [][\A j \in DOMAIN run :
          /\ (run[j].pc = "revalidate" /\ run'[j].pc \notin {"revalidate", "crashed"}) =>
                 IF Entitled(teams[JobTeam(j)])
                 THEN run'[j].pc = "storeContext"
                 ELSE /\ jobStore'[j].status = "failed"
                      /\ jobStore'[j].error \in {ErrTeamGone, ErrSubInactive, ErrAddonCancelled}
                      /\ run'[j].pc = "writeFailed"
          /\ (run'[j].pc = "storeContext" /\ run[j].pc # "storeContext") =>
                 /\ run[j].pc = "revalidate"
                 /\ AllVideosHandled(run[j])
                 /\ Entitled(teams[JobTeam(j)])
          /\ (j \in DOMAIN jobStore /\ j \in DOMAIN jobStore'
                /\ jobStore'[j].status = "completed" /\ jobStore[j].status # "completed") =>
                 run[j].pc = "storeContext"]_vars

\* a run that stored a video failed at the re-validation because the add-on was cancelled
C9_Witness ==
    \E j \in DOMAIN jobStore :
        /\ jobStore[j].status = "failed"
        /\ jobStore[j].error = ErrAddonCancelled
        /\ run[j].pc = "writeFailed"
        /\ run[j].processedVideos > 0

\* no fetched video has captions and a duration in the band, no description is long enough
GatePremise(r) ==
    /\ r.infoFetched
    /\ \A k \in 1..Len(r.videos) :
          ~(/\ r.videos[k].hasCaptions
            /\ r.videos[k].durationMinutes >= 2
            /\ r.videos[k].durationMinutes <= 25)
    /\ r.channelDescriptionLength <= 50
    /\ r.customDescriptionLength <= 50
    /\ r.wikipediaSummaryLength <= 50

\* C10: a run that fetched no eligible video and no description longer than 50 characters
\* has stored the job as failed, before handling any video, with a message that mentions
\* captions and the 2-25 band.
C10_EligibilityGateFailsJob ==
    \A j \in DOMAIN run :
        GatePremise(run[j]) =>
            /\ run[j].pc = "writeFailed"
            /\ jobStore[j].status = "failed"
            /\ {"captions", "2-25"} \subseteq Mentions(jobStore[j].error)
            /\ run[j].i = 0
            /\ run[j].processedVideos = 0
            /\ run[j].totalChunks = 0
            /\ run[j].failedVideos = 0

\* the gate failed a job although an in-band video without captions was fetched
C10_Witness ==
    \E j \in DOMAIN run :
        /\ GatePremise(run[j])
        /\ Len(run[j].videos) > 0
        /\ jobStore[j].error = ErrEligibility

\* the job of run j was failed by the eligibility gate
FailedAtGate(j) ==
    /\ GatePremise(run[j])
    /\ run[j].pc = "writeFailed"
    /\ j \in DOMAIN jobStore
    /\ jobStore[j].status = "failed"

\* C11: the error persisted for a job that failed at the eligibility gate tells which
\* condition was unmet: it is not the message the gate gives when the videos miss a
\* different requirement (no captions, no valid duration, neither).
C11_GateMessageNamesCondition ==
    \A j \in DOMAIN run :
        FailedAtGate(j) =>
            \A withCaptions \in 0..MaxVideos, withValidDuration \in 0..MaxVideos :
                GateCondition(withCaptions, withValidDuration)
                      # GateCondition(videosWithCaptions(run[j].videos),
                                      videosWithValidDuration(run[j].videos))
                   => jobStore[j].error # errorMsg(withCaptions, withValidDuration)

\* C12: a step of the video loop that does not store its video adds exactly one to
\* failedVideos, changes no other counter and leaves the job in status processing with
\* the loop at the next video; after the last video the run goes on to the validation
\* that follows the loop.
C12_VideoFailureDoesNotAbort ==
    [][\A j \in DOMAIN run :
          (/\ run[j].pc = "video"
           /\ run'[j].pc \notin {"hung", "crashed"}
           /\ run'[j].processedVideos = run[j].processedVideos
           /\ run'[j] # run[j]) =>
              /\ run'[j].failedVideos = run[j].failedVideos + 1
              /\ run'[j].i = run[j].i + 1
              /\ run'[j].totalChunks = run[j].totalChunks
              /\ run'[j].videos = run[j].videos
              /\ IF run'[j].i < Len(run[j].videos)
                 THEN run'[j].pc = "video" /\ jobStore'[j] = jobStore[j]
                 ELSE \/ run'[j].pc = "revalidate" /\ jobStore'[j] = jobStore[j]
                      \/ /\ run'[j].pc = "writeFailed"
                         /\ jobStore'[j].error = ErrNoContent
                         /\ run[j].processedVideos = 0]_vars

\* a job ended completed although one of its videos failed and another was stored
C12_Witness ==
    \E j \in DOMAIN jobStore :
        /\ jobStore[j].status = "completed"
        /\ jobStore[j].result[1].failedVideos > 0
        /\ jobStore[j].result[1].processedVideos > 0

\* the record of job j carries the terminal status of the job with its counts or error
TerminalRecordPersisted(j) ==
    /\ j \in DOMAIN processing
    /\ processing[j].channelId = JobChannel(j)
    /\ processing[j].teamId = JobTeam(j)
    /\ processing[j].status = jobStore[j].status
    /\ processing[j].canReprocess = TRUE
    /\ jobStore[j].status = "completed" =>
          /\ processing[j].videosProcessed = jobStore[j].result[1].processedVideos
          /\ processing[j].totalChunks = jobStore[j].result[1].totalChunks
          /\ processing[j].failedVideos = jobStore[j].result[1].failedVideos
    /\ jobStore[j].status = "failed" => processing[j].lastError = jobStore[j].error

\* C13: once the run of a completed or failed job has returned, the processing record of
\* the job carries the same terminal status, canReprocess = true and the counts (on
\* completed) or the error (on failed); a record with canReprocess = false belongs to a
\* job that is processing or whose run is about to write the terminal record (unless the
\* worker died in between).
C13_TerminalRecordWritten ==
    \A j \in DOMAIN run :
        /\ (run[j].pc = "done" /\ Terminal(j)) => TerminalRecordPersisted(j)
        /\ (j \in DOMAIN processing /\ processing[j].canReprocess = FALSE
               /\ j \in DOMAIN jobStore) =>
              \/ jobStore[j].status = "processing"
              \/ run[j].pc \in {"writeCompleted", "writeFailed", "crashed"}

\* C14: while the run is in the video loop or past it, the persisted progress.current is
\* the number of videos handled so far (stored, skipped or failed) and progress.total is
\* the number of fetched videos.
C14_ProgressAfterEachVideo ==
    \A j \in DOMAIN run :
        (/\ j \in DOMAIN jobStore
         /\ run[j].pc \in {"video", "revalidate", "storeContext", "writeCompleted"}) =>
            /\ jobStore[j].current = run[j].i
            /\ jobStore[j].total = Len(run[j].videos)

ChunkKey(record) == <<record.creatorId, record.videoId, record.chunkIndex>>

\* C15: however often the chunks of a (creatorId, videoId, chunkIndex) key were stored,
\* the vector index holds at most one vector and transcript_chunks at most one document
\* for that key.
C15_StoreOverwrites ==
    /\ \A id1, id2 \in DOMAIN vectors :
          ChunkKey(vectors[id1]) = ChunkKey(vectors[id2]) => id1 = id2
    /\ \A d \in BagToSet(transcript_chunks) :
          /\ CopiesIn(d, transcript_chunks) = 1
          /\ \A e \in BagToSet(transcript_chunks) : ChunkKey(d) = ChunkKey(e) => d = e

\* C16: after a successful storeTranscriptChunks the keys of the vectors it upserted are
\* the keys of the documents it inserted, namely one key per non-empty chunk with the
\* chunk's position in the chunker's output (from 0) as chunkIndex; every vector id is
\* built from its key, and both records are in their stores.
C16_StoresAgreeOnKeys ==
    (call.op = "store" /\ call.error = "") =>
        /\ {ChunkKey(r) : r \in call.upserted} = {ChunkKey(d) : d \in call.inserted}
        /\ {ChunkKey(d) : d \in call.inserted}
              = {<<call.creatorId, call.videoId, i - 1>> :
                    i \in {k \in 1..Len(call.chunks) : call.chunks[k] # ""}}
        /\ \A r \in call.upserted :
              /\ r.id = VectorId(r.creatorId, r.videoId, r.chunkIndex)
              /\ r.id \in DOMAIN vectors
              /\ vectors[r.id] = r
              /\ r.text = call.chunks[r.chunkIndex + 1]
        /\ \A d \in call.inserted :
              /\ d \in BagToSet(transcript_chunks)
              /\ d.text = call.chunks[d.chunkIndex + 1]

\* a list whose first chunk is empty was stored successfully
C16_Witness ==
    /\ call.op = "store"
    /\ call.error = ""
    /\ Len(call.chunks) = 2
    /\ call.chunks[1] = ""
    /\ call.inserted # {}

\* C17: a text returned by a query of the vector index belongs to a match that scores at
\* least 0.25, no match below the threshold is returned, and every result of the semantic
\* half of a hybrid search has a score of at least 0.25.
C17_SemanticScoresAboveThreshold ==
    /\ call.op = "query" =>
          /\ \A i \in 1..Len(call.results) :
                \E k \in 1..Len(call.matches) :
                   /\ call.matches[k].text = call.results[i]
                   /\ call.matches[k].score >= 25
          /\ \A k \in 1..Len(call.matches) :
                call.matches[k].score < 25 =>
                   \A i \in 1..Len(call.results) : call.results[i] # call.matches[k].text
    /\ (call.op = "hybrid" /\ call.semanticDone) =>
          \A i \in 1..Len(call.semanticResults) : call.semanticResults[i].score >= 25

\* C18: a query of the vector index never raises and returns nothing when the provider
\* fails on the first attempt and on both retries; an upsert that fails on the first
\* attempt and on both retries raises and stores nothing, and one that succeeds within
\* the retries stores its vectors without raising.
C18_SearchFailsSoftWritesFailHard ==
    /\ call.op = "query" =>
          /\ ~call.raised
          /\ call.failures > 2 => call.results = <<>>
    /\ (call.op = "upsert" /\ Len(call.chunks) > 0) =>
          IF call.failures > 2
          THEN call.raised /\ call.upserted = {}
          ELSE /\ ~call.raised
               /\ Cardinality(call.upserted) = Len(call.chunks)
               /\ \A r \in call.upserted : r.id \in DOMAIN vectors

\* a query whose provider kept failing returned no text although matches existed
C18_Witness ==
    /\ call.op = "query"
    /\ call.failures > 2
    /\ Len(call.matches) > 0
    /\ call.results = <<>>
    /\ ~call.raised

HybridDone == call.op = "hybrid" /\ call.pc = "done"

Texts(results) == {results[i].text : i \in 1..Len(results)}

\* C19 as stated: a hybrid search in which a provider call failed raises nothing and
\* returns an empty result set.
C19_FailureYieldsEmptyResults ==
    (HybridDone /\ (call.semanticFailed \/ call.keywordFailed)) =>
        /\ ~call.raised
        /\ call.results = <<>>

\* C19 as amended: a hybrid search never raises; a half whose provider call failed
\* contributes no candidate, so the results come from the other half alone (and are not
\* empty when that half found something), and they are empty when both halves failed.
C19_FailedHalfContributesNothing ==
    HybridDone =>
        /\ ~call.raised
        /\ call.semanticFailed =>
              /\ call.semanticResults = <<>>
              /\ Texts(call.results) \subseteq Texts(call.keywordResults)
              /\ call.keywordResults # <<>> => call.results # <<>>
        /\ call.keywordFailed =>
              /\ call.keywordResults = <<>>
              /\ Texts(call.results) \subseteq Texts(call.semanticResults)
              /\ call.semanticResults # <<>> => call.results # <<>>
        /\ (call.semanticFailed /\ call.keywordFailed) => call.results = <<>>

\* the keyword half failed and the search returned the results of the semantic half
C19_Witness ==
    /\ HybridDone
    /\ call.keywordFailed
    /\ ~call.semanticFailed
    /\ call.results # <<>>

\* position of the first candidate with the head of the given text
FirstPosition(candidates, text) ==
    CHOOSE i \in 1..Len(candidates) :
        /\ candidates[i].text.head = text.head
        /\ \A k \in 1..(i - 1) : candidates[k].text.head # text.head

\* C20: the results of a hybrid search are the candidates (semantic ones first) without
\* those whose first 100 characters repeat an earlier one, each with its hybrid score, in
\* non-increasing order of that score, results with equal score in the order of the
\* candidates, cut to limit so that no dropped candidate scores higher than a kept one.
C20_FuseAndRankStable ==
    HybridDone =>
        LET candidates == call.semanticResults \o call.keywordResults
            heads == {candidates[i].text.head : i \in 1..Len(candidates)}
            results == call.results
            Pos(i) == FirstPosition(candidates, results[i].text)
        IN  /\ Len(results) = IF Cardinality(heads) < call.limit
                              THEN Cardinality(heads) ELSE call.limit
            /\ \A i \in 1..Len(results) :
                  /\ \E k \in 1..Len(candidates) : candidates[k].text.head = results[i].text.head
                  /\ candidates[Pos(i)].text = results[i].text
                  /\ results[i].score = hybridScore(candidates[Pos(i)], call.query)
                  /\ results[i].source = "hybrid"
            /\ \A i, k \in 1..Len(results) :
                  i < k =>
                     /\ results[i].score >= results[k].score
                     /\ results[i].text.head # results[k].text.head
                     /\ results[i].score = results[k].score => Pos(i) < Pos(k)
            /\ \A c \in 1..Len(candidates) :
                  (/\ \A k \in 1..(c - 1) : candidates[k].text.head # candidates[c].text.head
                   /\ \A i \in 1..Len(results) : results[i].text # candidates[c].text) =>
                     \A i \in 1..Len(results) :
                        results[i].score >= hybridScore(candidates[c], call.query)

\* two results have the same hybrid score, the first from the semantic list and the
\* second from the keyword list
C20_Witness ==
    /\ HybridDone
    /\ \E i \in 1..Len(call.results) :
          /\ i + 1 <= Len(call.results)
          /\ call.results[i].score = call.results[i + 1].score
          /\ call.results[i].text \in Texts(call.semanticResults)
          /\ call.results[i + 1].text \in Texts(call.keywordResults)

\* the text contains every word of the query and every keyword of the search
ContainsAllKeywords(text) ==
    /\ \A i \in 1..Len(call.query) : call.query[i] \in text.words
    /\ \A i \in 1..Len(call.keywords) : call.keywords[i] \in text.words

\* the text search found exactly the candidates that contain a keyword
KeywordHalfMatchesCorpus ==
    call.keywords # <<>> =>
        \A text \in Texts(call.semanticResults \o call.keywordResults) :
            (\E i \in 1..Len(call.keywords) : call.keywords[i] \in text.words)
                <=> text \in Texts(call.keywordResults)

\* C21: when no provider call failed and exactly one candidate of a hybrid search contains
\* all query keywords (and no two candidates share their first 100 characters), that
\* candidate is the first result, whatever its position among the semantic candidates.
C21_VerbatimChunkRanksFirst ==
    (HybridDone /\ ~call.semanticFailed /\ ~call.keywordFailed /\ KeywordHalfMatchesCorpus) =>
        LET candidates == call.semanticResults \o call.keywordResults
            verbatim == {text \in Texts(candidates) : ContainsAllKeywords(text)}
        IN  (/\ Cardinality(verbatim) = 1
             /\ \A t, u \in Texts(candidates) : t.head = u.head => t = u) =>
                /\ call.results # <<>>
                /\ call.results[1].text \in verbatim

\* the words of the fingerprints of the given texts, one after the other
Flatten(fingerprints) ==
    LET F[i \in 0..Len(fingerprints)] ==
            IF i = 0 THEN <<>> ELSE F[i - 1] \o fingerprints[i]
    IN  F[Len(fingerprints)]

\* the chunks are a split of the transcript that the segments make up
ChunksSplitTranscript ==
    Flatten([i \in 1..Len(call.chunks) |-> chunkFingerprint(call.chunks[i])])
        = Flatten([i \in 1..Len(call.segments) |-> fingerprint(call.segments[i].text)])

\* C22: the start times given to the chunks of one video, aligned against the well-formed
\* segments of its transcript, are non-decreasing in chunk index.
C22_StartTimesNonDecreasing ==
    (call.op = "align" /\ WellFormed(call.segments) /\ ChunksSplitTranscript) =>
        \A i, k \in 1..Len(call.documents) :
            i < k => call.documents[i].startTime <= call.documents[k].startTime

\* the error is of one of the kinds that must not be retried: authentication or
\* authorization, quota or another 4xx answer, video unavailable, private or removed
MustNotBeRetried(message) ==
    message \cap {"unauthorized", "EAUTH", "quota", "400", "403",
                  "Video unavailable", "Private video", "Video removed"} # {}

\* C23: an operation that fails with a non-retryable error is attempted exactly once by
\* withRetry, which rejects with that error right after the first attempt.
C23_NonRetryableAttemptedOnce ==
    (/\ call.op = "retry"
     /\ call.failures > 0
     /\ call.attempts > 0
     /\ MustNotBeRetried(call.message)
     /\ "429" \notin call.message) =>
        /\ call.attempts = 1
        /\ call.outcome = "rejected"
        /\ call.error = call.message

\* C24: when the embedding call fails fewer times than the retries of the embedding
\* policy allow before it succeeds, storing the chunks of a video does not end with the
\* embedding error.
C24_EmbeddingFailureRetried ==
    (/\ call.op = "store"
     /\ Len(chunksWithEmbeddings(call.chunks)) > 0
     /\ call.embeddingFailures <= OpenAIRetries) =>
        call.error # ErrEmbedding

\* C25: both halves of a hybrid search are under way at once and settle in either order;
\* the fusion starts only after both have settled, and its result does not depend on the
\* half that settled first: a text found by both halves is returned as the semantic
\* candidate, and of two results with the same score the semantic one comes first.
C25_HalvesJoinedBeforeFusion ==
    [][/\ (call.op = "hybrid" /\ call.pc = "halves" /\ call'.pc = "done") =>
             /\ call.semanticDone
             /\ call.keywordDone
             /\ call'.semanticResults = call.semanticResults
             /\ call'.keywordResults = call.keywordResults
       /\ (call'.op = "hybrid" /\ call'.pc = "done") =>
             LET semantic == call'.semanticResults
                 keyword == call'.keywordResults
                 results == call'.results
             IN  /\ \A i \in 1..Len(results) :
                       (\E k \in 1..Len(semantic) :
                            semantic[k].text.head = results[i].text.head) =>
                          results[i].text \in Texts(semantic)
                 /\ \A i, k \in 1..Len(results) :
                       (/\ results[i].score = results[k].score
                        /\ results[i].text \in Texts(semantic)
                        /\ results[k].text \notin Texts(semantic)) => i < k
       /\ (call.op = "hybrid" /\ call.pc = "halves" /\ call'.op = "hybrid"
             /\ call'.pc = "halves") =>
             /\ call.semanticDone => (call'.semanticResults = call.semanticResults)
             /\ call.keywordDone => (call'.keywordResults = call.keywordResults)]_vars

\* the keyword half settled first, both halves found the same text, and the search
\* returned it as the semantic candidate
C25_Witness ==
    /\ HybridDone
    /\ call.first = "keyword"
    /\ call.keywords # <<>>
    /\ \E i \in 1..Len(call.results) :
          /\ call.results[i].text \in Texts(call.semanticResults)
          /\ call.results[i].text.head \in {text.head : text \in Texts(call.keywordResults)}

\* network timeouts, 5xx answers and rate limits
Transient(message) == message \in {{"ETIMEDOUT"}, {"503"}, {"429"}}

\* C26: withRetry runs the operation at most retries + 1 times; it resolves at the first
\* attempt that succeeds, goes on after a transient failure while retries are left,
\* rejects with the error of the last attempt once they are used up, and makes no attempt
\* after it has resolved or rejected.
C26_RetryBounded ==
    [][(call'.op = "retry") =>
          /\ call'.attempts <= call'.retries + 1
          /\ call'.outcome = "resolved" =>
                /\ call'.attempts = call'.failures + 1
                /\ call'.error = {}
          /\ call'.outcome = "rejected" =>
                /\ call'.attempts <= call'.failures
                /\ call'.error = call'.message
                /\ Transient(call'.message) => call'.attempts = call'.retries + 1
          /\ (/\ Transient(call'.message)
              /\ call'.attempts <= call'.failures
              /\ call'.attempts <= call'.retries) => call'.outcome = "pending"
          /\ (call.op = "retry" /\ call.outcome = "pending") =>
                /\ call'.attempts = call.attempts + 1
                /\ call'.retries = call.retries
                /\ call'.failures = call.failures
                /\ call'.message = call.message
          /\ (call.op = "retry" /\ call.outcome # "pending") => call'.attempts = 0]_vars

\* an operation that kept failing with a transient error was given up after the last retry
C26_Witness ==
    /\ call.op = "retry"
    /\ call.outcome = "rejected"
    /\ Transient(call.message)
    /\ call.attempts = call.retries + 1
    /\ call.failures > call.attempts

\* C27: a run whose 30-minute timeout has fired writes nothing more: its steps leave the
\* job record, the processing record and the creator record as they are and store no
\* further chunk.
C27_NoWritesAfterTimeout ==
    [][\A j \in DOMAIN run :
          (wrapper[j] = "timedOut" /\ run'[j] # run[j]) =>
              /\ jobStore' = jobStore
              /\ processing' = processing
              /\ creators' = creators
              /\ run'[j].totalChunks <= run[j].totalChunks]_vars

\* C28: the step that stores a job as completed belongs to a run that stored the chunks of
\* at least one video or at least one chunk of channel context.
C28_CompletedOnlyWithContent ==
    [][\A j \in DOMAIN jobStore :
          (/\ j \in DOMAIN jobStore'
           /\ jobStore'[j].status = "completed"
           /\ jobStore[j].status # "completed") =>
              \/ run'[j].processedVideos > 0
              \/ run'[j].contextChunks > 0]_vars

Handled(r) == r.pc \in {"video", "revalidate", "storeContext", "writeCompleted"}

\* C29: in the video loop and after it processedVideos + failedVideos is the number of
\* videos handled so far; the result of a completed job has processedVideos +
\* failedVideos = progress.total; 0 <= progress.current <= progress.total always, and
\* progress.current never decreases.
C29_VideoAccountingConserved ==
    [][\A j \in DOMAIN run' :
          /\ Handled(run'[j]) =>
                run'[j].processedVideos + run'[j].failedVideos = run'[j].i
          /\ (j \in DOMAIN jobStore' /\ jobStore'[j].status = "completed") =>
                jobStore'[j].result[1].processedVideos + jobStore'[j].result[1].failedVideos
                    = jobStore'[j].total
          /\ j \in DOMAIN jobStore' =>
                /\ 0 <= jobStore'[j].current
                /\ jobStore'[j].current <= jobStore'[j].total \/ jobStore'[j].total = 0
          /\ (j \in DOMAIN jobStore /\ j \in DOMAIN jobStore') =>
                jobStore'[j].current >= jobStore[j].current]_vars

EntitlementErrors == {ErrTeamGone, ErrSubInactive, ErrAddonCancelled}

\* C30: a step changes a creator record only by creating it or by setting it up with the
\* data of a run that is passing the entitlement re-check at that step; the record of a
\* job that failed at the eligibility gate or at the re-check was never set up by that job.
C30_CreatorSetUpOnlyAfterRecheck ==
    [][/\ \A c \in DOMAIN creators :
             creators'[c] # creators[c] =>
                \E j \in DOMAIN run :
                   /\ run[j].creatorId = c
                   /\ run[j].pc = "revalidate"
                   /\ run'[j].pc = "storeContext"
                   /\ Entitled(teams[creators[c].ownedByTeamId])
                   /\ creators'[c] = [creators[c] EXCEPT !.setupComplete = TRUE,
                                                         !.videosOfJob = j]
       /\ \A c \in DOMAIN creators' \ DOMAIN creators :
             ~creators'[c].setupComplete /\ creators'[c].videosOfJob = 0
       /\ \A j \in DOMAIN jobStore' :
             (/\ jobStore'[j].status = "failed"
              /\ jobStore'[j].error \in EntitlementErrors \cup {ErrEligibility}) =>
                 /\ creators'[run'[j].creatorId].videosOfJob # j
                 /\ (j \in DOMAIN jobStore /\ jobStore[j].status # "failed") =>
                        creators' = creators]_vars

\* a run that stored a video failed at the re-check and its creator is still not set up
C30_Witness ==
    \E j \in DOMAIN jobStore :
        /\ jobStore[j].status = "failed"
        /\ jobStore[j].error \in EntitlementErrors
        /\ run[j].pc = "done"
        /\ ~creators[JobChannel(j)].setupComplete
        /\ j \in DOMAIN processing
        /\ processing[j].status = "failed"

====
